---- MODULE Spec2Model ----
(***************************************************************************)
(* A model of the Cultura assistant: the request pipeline of               *)
(* gemini_utils.py (fact extraction, shortcut check, intent                *)
(* classification, response generation, the completion fallback), the     *)
(* location assistant of location.py (lookup cache, classification parse)  *)
(* and the HTTP boundary of app.py.                                        *)
(*                                                                         *)
(* A user message is a sequence of characters.  A completion text is a     *)
(* sequence of lines, a line a sequence of atoms: a label ("Location:"),   *)
(* a word, or the blank " ".  A stored fact value is a sequence of atoms.  *)
(***************************************************************************)
EXTENDS Naturals, Sequences, FiniteSets

VARIABLES
    user_preferences,   \* gemini_utils.user_preferences: user id -> partial record
    pc,                 \* position of the request inside process_user_message
    message,            \* the raw message of the request in progress
    user_id,            \* its user identifier
    llm_out,            \* the value the last _llm_chat call returned
    chat,               \* the last _llm_chat call: caller, models attempted, failures
    completions,        \* the callers of the completion attempts of this request
    before,             \* the user's record as extract_user_info found it
    stages,             \* the pipeline stages the request went through, in order
    reply,              \* what process_user_message returned
    intent,             \* intent of process_user_message: what classify_intent returned
    model_performance,  \* gemini_utils.model_performance: counters per model
    lines_left,         \* lines of extract_user_info: those not read yet, the current one first
    polygon_calls,      \* lookup-adapter calls of the enrichment entry points, per query
    location_cache,     \* LocationBasedFashionAssistant.location_cache
    classification_cache, \* LocationBasedFashionAssistant.classification_cache
    enriched,           \* the last enrichment call: its query and what it returned
    parsed,             \* the last classification response and its parse
    calls,              \* the enrichment calls under way: position and locals
    app_state,          \* whether importing app.py succeeded
    http,               \* the last HTTP exchange on POST /cultura
    threads             \* concurrent callers of extract_user_info: position and locals

vars == <<user_preferences, pc, message, user_id, llm_out, chat, completions,
          before, stages, reply, intent, model_performance, lines_left, polygon_calls, location_cache, classification_cache,
          enriched, parsed, calls, app_state, http, threads>>

pipeVars == <<user_preferences, pc, message, user_id, llm_out, chat,
              completions, before, stages, reply, intent, model_performance,
              lines_left>>
locVars == <<polygon_calls, location_cache, classification_cache, enriched,
             parsed, calls>>
httpVars == <<app_state, http>>
raceVars == <<threads>>

(***************************************************************************)
(* Bounds of the model.                                                    *)
(***************************************************************************)
MaxMsgLen == 3
MaxTextLines == 2
MaxMatches == 2
MaxLookups == 3
MaxTracked == 2

(***************************************************************************)
(* Characters and the string operations of process_user_message.           *)
(***************************************************************************)
Whitespace == {" "}
AsciiLetters == {"h", "i", "H"}
AsciiDigits == {"1"}
OtherLetters == {"é"}
Punctuation == {"!"}
MsgAlphabet == AsciiLetters \cup AsciiDigits \cup OtherLetters \cup Punctuation
                 \cup Whitespace

\* str.lower(), one character of a message or one word of a text: every
\* character and word of the model that has a capital letter is listed
LowerChar(c) ==
    CASE c = "H" -> "h"
      [] c = "Unknown" -> "unknown"
      [] c = "Region" -> "region"
      [] c = "Climate" -> "climate"
      [] c = "Zone" -> "zone"
      [] c = "India" -> "india"
      [] c = "Sri" -> "sri"
      [] c = "Lanka" -> "lanka"
      [] c = "France" -> "france"
      [] c = "Italy" -> "italy"
      [] c = "Canada" -> "canada"
      [] c = "Utopia" -> "utopia"
      [] c = "Paris" -> "paris"
      [] c = "Rome" -> "rome"
      [] c = "Atlantis" -> "atlantis"
      [] c = "Here" -> "here"
      [] c = "Location:" -> "location:"
      [] c = "Body Type:" -> "body type:"
      [] c = "Style Preferences:" -> "style preferences:"
      [] c = "Budget:" -> "budget:"
      [] c = "Skincare" -> "skincare"
      [] c = "Zara" -> "zara"
      [] c = "H&M" -> "h&m"
      [] c = "Casual" -> "casual"
      [] c = "Formal" -> "formal"
      [] c = "Linen" -> "linen"
      [] c = "Fabindia" -> "fabindia"
      [] c = "Myntra" -> "myntra"
      [] c = "Ajio" -> "ajio"
      [] c = "Lifestyle" -> "lifestyle"
      [] c = "INR" -> "inr"
      [] c = "None" -> "none"
      [] c = "I'm having trouble generating a response right now. Please try again." -> "i'm having trouble generating a response right now. please try again."
      [] c = "Amazon" -> "amazon"
      [] c = "Comfortable shoes" -> "comfortable shoes"
      [] c = "Cotton" -> "cotton"
      [] c = "Four seasons with varying temperatures" -> "four seasons with varying temperatures"
      [] c = "Hey! I am Cultura, your personal stylist. How can I help you today?" -> "hey! i am cultura, your personal stylist. how can i help you today?"
      [] c = "Hey, I didn't understand you. Could you please elaborate?" -> "hey, i didn't understand you. could you please elaborate?"
      [] c = "I'd love to give you location-specific advice! Could you let me know which city/country you're in?" -> "i'd love to give you location-specific advice! could you let me know which city/country you're in?"
      [] c = "It" -> "it"
      [] c = "Jacket" -> "jacket"
      [] c = "Layerable pieces" -> "layerable pieces"
      [] c = "Local e-commerce" -> "local e-commerce"
      [] c = "Local malls" -> "local malls"
      [] c = "Mid-range pricing" -> "mid-range pricing"
      [] c = "Neutral tones" -> "neutral tones"
      [] c = "No message provided" -> "no message provided"
      [] c = "Occasion suitable" -> "occasion suitable"
      [] c = "Online retailers" -> "online retailers"
      [] c = "Polyester blends" -> "polyester blends"
      [] c = "Seasonal colors" -> "seasonal colors"
      [] c = "Smart casual" -> "smart casual"
      [] c = "The" -> "the"
      [] c = "Uniqlo" -> "uniqlo"
      [] c = "Varies" -> "varies"
      [] c = "Versatile basics" -> "versatile basics"
      [] c = "Weather appropriate" -> "weather appropriate"
      [] OTHER -> c

\* str.lower()
lower(s) == [i \in 1..Len(s) |-> LowerChar(s[i])]

\* the one element of a set of one element: a value computed once
Only(S) == CHOOSE x \in S : TRUE

Min(S) == CHOOSE x \in S : \A y \in S : x <= y

RECURSIVE lstrip(_)
\* str.lstrip(): drop the leading whitespace
lstrip(s) ==
    IF s # <<>> /\ Head(s) \in Whitespace THEN lstrip(Tail(s)) ELSE s

RECURSIVE rstrip(_)
\* str.rstrip(): drop the trailing whitespace
rstrip(s) ==
    IF s # <<>> /\ s[Len(s)] \in Whitespace
    THEN rstrip(SubSeq(s, 1, Len(s) - 1))
    ELSE s

\* str.strip()
strip(s) == rstrip(lstrip(s))

RECURSIVE SplitFrom(_, _, _)
\* str.split() with no separator: the maximal runs of non-whitespace
SplitFrom(s, cur, acc) ==
    IF s = <<>>
    THEN IF cur = <<>> THEN acc ELSE Append(acc, cur)
    ELSE IF Head(s) \in Whitespace
         THEN SplitFrom(Tail(s), <<>>, IF cur = <<>> THEN acc ELSE Append(acc, cur))
         ELSE SplitFrom(Tail(s), Append(cur, Head(s)), acc)

split(s) == SplitFrom(s, <<>>, <<>>)

\* re.fullmatch(r"[a-zA-Z0-9]+", s)
fullmatch_alnum(s) ==
    /\ s # <<>>
    /\ \A i \in 1..Len(s) : s[i] \in AsciiLetters \cup AsciiDigits

\* the list greetings of process_user_message
greetings ==
    << <<"h", "e", "y">>, <<"h", "i">>, <<"h", "e", "l", "l", "o">>,
       <<"h", "o", "l", "a">>, <<"y", "o">>,
       <<"g", "r", "e", "e", "t", "i", "n", "g", "s">> >>

InList(x, list) == \E i \in 1..Len(list) : list[i] = x

GreetingReply ==
    << <<"Hey! I am Cultura, your personal stylist. How can I help you today?">> >>
NotUnderstoodReply ==
    << <<"Hey, I didn't understand you. Could you please elaborate?">> >>
DegradedReply ==
    << <<"I'm having trouble generating a response right now. Please try again.">> >>

\* the shortcut check comparing the message with the greetings as typed
ShortcutReply_NoLower(m) ==
    IF InList(strip(m), greetings)
    THEN GreetingReply
    ELSE IF Len(split(strip(m))) = 1 /\ ~InList(strip(m), greetings)
              /\ fullmatch_alnum(strip(m))
         THEN NotUnderstoodReply
         ELSE <<>>

\* the shortcut check matching the message as typed, untrimmed
ShortcutReply_RawMatch(m) ==
    IF InList(lower(strip(m)), greetings)
    THEN GreetingReply
    ELSE IF Len(split(strip(m))) = 1 /\ ~InList(lower(strip(m)), greetings)
              /\ fullmatch_alnum(m)
         THEN NotUnderstoodReply
         ELSE <<>>

\* lines 215-220 of process_user_message: the reply of the shortcut check,
\* or <<>> when the request goes on to intent classification
ShortcutReply(m) ==
    IF InList(lower(strip(m)), greetings)
    THEN GreetingReply
    ELSE IF Len(split(strip(m))) = 1 /\ ~InList(lower(strip(m)), greetings)
              /\ fullmatch_alnum(strip(m))
         THEN NotUnderstoodReply
         ELSE <<>>

(***************************************************************************)
(* Completion texts: response.text.strip() of _llm_chat.                   *)
(***************************************************************************)
IsBlank(line) == \A i \in 1..Len(line) : line[i] \in Whitespace

RECURSIVE TextLStrip(_)
TextLStrip(t) ==
    IF Len(t) > 1 /\ IsBlank(Head(t))
    THEN TextLStrip(Tail(t))
    ELSE <<lstrip(Head(t))>> \o Tail(t)

RECURSIVE TextRStrip(_)
TextRStrip(t) ==
    IF Len(t) > 1 /\ IsBlank(t[Len(t)])
    THEN TextRStrip(SubSeq(t, 1, Len(t) - 1))
    ELSE SubSeq(t, 1, Len(t) - 1) \o <<rstrip(t[Len(t)])>>

\* str.strip() of a text of several lines
TextStrip(t) == TextRStrip(TextLStrip(t))

(***************************************************************************)
(* config.py and the model selection of gemini_utils.py.                   *)
(***************************************************************************)
GEMINI_MODELS ==
    <<"models/gemini-1.5-flash", "models/gemini-1.5-flash-8b",
      "models/gemini-2.0-flash", "models/gemini-2.5-flash">>

get_model_for_task(task_complexity) ==
    IF task_complexity = "simple" THEN "models/gemini-1.5-flash"
    ELSE IF task_complexity = "medium" THEN "models/gemini-2.0-flash"
    ELSE "models/gemini-2.5-flash"

\* lines 40-43 of _llm_chat: the models the primary attempt may use
PrimaryModels(use_random_model, task_complexity) ==
    IF use_random_model
    THEN {GEMINI_MODELS[i] : i \in 1..Len(GEMINI_MODELS)}
    ELSE {get_model_for_task(task_complexity)}

\* a fallback that never changes model
FallbackModel_Fixed(model_name) == "models/gemini-1.5-flash"

\* lines 52-54 of _llm_chat: the model of the second attempt
FallbackModel(model_name) ==
    IF model_name = "models/gemini-1.5-flash"
    THEN "models/gemini-2.0-flash"
    ELSE "models/gemini-1.5-flash"

\* line 193: every counter of model_performance starts at 0
NoAttempts ==
    [model \in {GEMINI_MODELS[i] : i \in 1..Len(GEMINI_MODELS)} |->
        [success |-> 0, failures |-> 0]]

\* track_model_performance (lines 195-199); no function of the repository
\* calls it
track_model_performance(performance, model_name, success) ==
    IF success
    THEN [performance EXCEPT ![model_name].success = @ + 1]
    ELSE [performance EXCEPT ![model_name].failures = @ + 1]

NoChat == [caller |-> "none", task_complexity |-> "none",
           use_random_model |-> FALSE, attempts |-> <<>>, raised |-> 0]

\* a call _llm_chat(prompt, task_complexity, use_random_model) about to start
NewChat(caller, task_complexity, use_random_model) ==
    [caller |-> caller, task_complexity |-> task_complexity,
     use_random_model |-> use_random_model, attempts |-> <<>>, raised |-> 0]

\* a pipeline that returns the text of the classifier as the reply
AfterChat_NoIntentCheck(caller) ==
    CASE caller = "extract" -> "merge"
      [] OTHER -> "return"

\* where the caller of _llm_chat goes on once it has the text
AfterChat(caller) ==
    CASE caller = "extract" -> "merge"
      [] caller = "classify" -> "intent_check"
      [] OTHER -> "return"

\* the completion texts the model draws for a caller of _llm_chat
TextsFor(I, caller) ==
    CASE caller = "extract" -> I.extract
      [] caller = "classify" -> I.intent
      [] OTHER -> I.generate

(***************************************************************************)
(* Fact extraction: get_enhanced_location_info and extract_user_info.      *)
(***************************************************************************)
EmptyDict == [k \in {} |-> {}]

\* d[k] = v on a dictionary
Put(d, k, v) == [x \in DOMAIN d \cup {k} |-> IF x = k THEN v ELSE d[x]]

None == [none |-> TRUE]
Unknown == <<"unknown">>

\* the display name the lookup service reports for a query it matches
DisplayName(query) == <<"display name of">> \o query

\* the address the lookup service reports for a query it matches
AddressOf(query) ==
    IF query = <<"Paris">>
    THEN [city |-> [t |-> "str", v |-> <<"Paris">>],
          country |-> [t |-> "str", v |-> <<"France">>]]
    ELSE IF query = <<"Rome">>
    THEN [city |-> [t |-> "str", v |-> <<"Rome">>],
          country |-> [t |-> "str", v |-> <<"Italy">>]]
    ELSE [country |-> [t |-> "str", v |-> <<"Utopia">>]]

\* LocationAPI.get_user_location_polygon: the record of a match, or None;
\* found is the set of queries the lookup service matches at this moment
get_user_location_polygon(location_query, found) ==
    IF location_query = <<>> \/ lower(location_query) = Unknown
    THEN None
    ELSE IF location_query \in found
         THEN [display_name |-> DisplayName(location_query),
               source |-> "nominatim",
               latitude |-> <<"lat of">> \o location_query,
               longitude |-> <<"lon of">> \o location_query,
               bbox |-> <<"boundingbox">>,
               address |-> AddressOf(location_query)]
         ELSE None

\* gemini_utils.get_enhanced_location_info
get_enhanced_location_info(location_string, found) ==
    IF location_string = <<>> \/ lower(location_string) = Unknown
    THEN None
    ELSE LET polygon_data == get_user_location_polygon(location_string, found)
         IN  IF polygon_data # None
             THEN [original_query |-> location_string,
                   display_name |-> polygon_data.display_name,
                   source |-> polygon_data.source,
                   bbox |-> polygon_data.bbox,
                   polygon_available |-> TRUE]
             ELSE [original_query |-> location_string,
                   polygon_available |-> FALSE]

\* label in line
Contains(line, label) == \E i \in 1..Len(line) : line[i] = label

\* the value of a labelled line taken without trimming it
ValueAfter_NoStrip(line, label) ==
    LET first == Min({i \in 1..Len(line) : line[i] = label})
    IN  SubSeq(line, first + 1, Len(line))

\* line.split(label)[1].strip(): what stands between the first occurrence
\* of the label and the next one (or the end of the line), trimmed
ValueAfter(line, label) ==
    LET first == Min({i \in 1..Len(line) : line[i] = label})
        rest == SubSeq(line, first + 1, Len(line))
        again == {j \in 1..Len(rest) : rest[j] = label}
    IN  strip(IF again = {} THEN rest ELSE SubSeq(rest, 1, Min(again) - 1))

\* one turn of the loop of extract_user_info (lines 120-139)
MergeLine(rec, line, found) ==
    IF Contains(line, "Location:")
    THEN LET location == ValueAfter(line, "Location:")
             enhanced_location == get_enhanced_location_info(location, found)
         IN  IF location # Unknown
             THEN IF enhanced_location # None
                  THEN Put(Put(rec, "location", location),
                           "enhanced_location", enhanced_location)
                  ELSE Put(rec, "location", location)
             ELSE rec
    ELSE IF Contains(line, "Body Type:")
    THEN LET body_type == ValueAfter(line, "Body Type:")
         IN  IF body_type # Unknown THEN Put(rec, "body_type", body_type) ELSE rec
    ELSE IF Contains(line, "Style Preferences:")
    THEN LET style == ValueAfter(line, "Style Preferences:")
         IN  IF style # Unknown THEN Put(rec, "style_preferences", style) ELSE rec
    ELSE IF Contains(line, "Budget:")
    THEN LET budget == ValueAfter(line, "Budget:")
         IN  IF budget # Unknown THEN Put(rec, "budget", budget) ELSE rec
    ELSE rec

RECURSIVE MergeLines(_, _, _)
\* the loop of extract_user_info over the lines of the completion
MergeLines(rec, lines, found) ==
    IF lines = <<>>
    THEN rec
    ELSE Only({MergeLines(merged, rest, found) :
                  merged \in {MergeLine(rec, Head(lines), found)},
                  rest \in {Tail(lines)}})

\* the turn of this line waits for the lookup service: it holds a location
\* other than "unknown" (line 123) that get_enhanced_location_info does not
\* turn away (line 81)
LooksUp(line) ==
    /\ Contains(line, "Location:")
    /\ ValueAfter(line, "Location:") # Unknown
    /\ ValueAfter(line, "Location:") # <<>>
    /\ lower(ValueAfter(line, "Location:")) # Unknown

\* a store whose record of the user is emptied on every call
EnsureRecord_Fresh(prefs, uid) ==
    Put(prefs, uid, EmptyDict)

\* lines 117-118 of extract_user_info
EnsureRecord(prefs, uid) ==
    IF uid \in DOMAIN prefs THEN prefs ELSE Put(prefs, uid, EmptyDict)

\* a category list that also takes a capitalised spelling
IntentCategories_Loose ==
    << << <<"skincare">> >>, << <<"Skincare">> >>, << <<"event_dressing">> >>,
       << <<"travel">> >>, << <<"music">> >>, << <<"general_recommendation">> >> >>

\* process_user_message line 222: the five categories
IntentCategories ==
    << << <<"skincare">> >>, << <<"event_dressing">> >>, << <<"travel">> >>,
       << <<"music">> >>, << <<"general_recommendation">> >> >>

(***************************************************************************)
(* The inputs the model draws: messages, users, completion texts and the   *)
(* places the lookup service knows.                                        *)
(***************************************************************************)
Messages == UNION {[1..n -> MsgAlphabet] : n \in 1..MaxMsgLen}
UserIds == {"1001"}
Places == {<<"Paris">>, <<"Rome">>}

\* one labelled line of an extraction response
Labelled(label, value) == <<label, " ", value>>

LocationLines ==
    {<<>>, <<Labelled("Location:", "unknown")>>,
     <<Labelled("Location:", "Paris")>>, <<Labelled("Location:", "Rome")>>}
BodyTypeLines ==
    {<<>>, <<Labelled("Body Type:", "unknown")>>,
     <<Labelled("Body Type:", "slim")>>}
StyleLines ==
    {<<>>, <<Labelled("Style Preferences:", "unknown")>>}
BudgetLines ==
    {<<>>, <<Labelled("Budget:", "unknown")>>, <<Labelled("Budget:", "$200")>>,
     <<Labelled("Budget:", "$50-100")>>}

\* a response in the format the prompt asks for, any line possibly left out
Formatted(l, b, s, g) ==
    IF l \o b \o s \o g = <<>> THEN << <<>> >> ELSE l \o b \o s \o g

AllUnknownText ==
    <<Labelled("Location:", "unknown"), Labelled("Body Type:", "unknown"),
      Labelled("Style Preferences:", "unknown"), Labelled("Budget:", "unknown")>>

\* responses that do not follow the format: reordered and repeated labels,
\* two labels on a line, blank lines and padding, an empty value, a
\* capitalised Unknown, prose
OddExtractTexts ==
    { <<Labelled("Budget:", "$200"), Labelled("Location:", "Paris"),
        Labelled("Budget:", "$50-100")>>,
      << <<"Budget:", " ", "$200", " ", "Location:", " ", "Rome">> >>,
      << <<" ">>, <<" ", "Here", " ", "Budget:", " ", "$200", " ">>, <<>> >>,
      << <<"Location:">> >>,
      << <<"Location:", " ", "Unknown">> >>,
      << <<"Style Preferences:", " ", "boho", " ", "chic">> >>,
      DegradedReply }

ExtractTexts ==
    {Formatted(l, b, s, g) : l \in LocationLines, b \in BodyTypeLines,
                             s \in StyleLines, g \in BudgetLines}
    \cup OddExtractTexts

FewExtractTexts ==
    {AllUnknownText, <<Labelled("Budget:", "$200")>>,
     <<Labelled("Location:", "Paris")>>}

IntentTexts ==
    { << <<"skincare">> >>, << <<" ">>, <<" ", "music", " ">> >>,
      << <<"Skincare">> >>, << <<"travel", " ", "probably">> >> }

GenerateTexts == { << <<"1.", " ", "Linen", " ", "maxi", " ", "dress">>, <<" ">> >> }

\* every message, few extraction responses
PipelineInputs ==
    [msgs |-> Messages, users |-> UserIds, extract |-> FewExtractTexts,
     intent |-> IntentTexts, generate |-> GenerateTexts, places |-> Places]

\* few messages, every extraction response
FactInputs ==
    [msgs |-> {<<"h", "i">>, <<"h", " ", "i">>}, users |-> UserIds,
     extract |-> ExtractTexts, intent |-> IntentTexts,
     generate |-> GenerateTexts, places |-> Places]

(***************************************************************************)
(* The request pipeline: process_user_message, step by step.               *)
(***************************************************************************)
\* handle_message of the chat transport calls process_user_message, which
\* calls extract_user_info, which calls _llm_chat(prompt, 'medium')
ProcessUserMessage(I) ==
    /\ pc = "idle"
    /\ \E m \in I.msgs, u \in I.users :
          /\ message' = m
          /\ user_id' = u
    /\ pc' = "llm_primary"
    /\ chat' = NewChat("extract", "medium", TRUE)
    /\ llm_out' = <<>>
    /\ completions' = <<>>
    /\ stages' = <<"FACT_EXTRACTION">>
    /\ reply' = <<>>
    /\ intent' = <<>>
    /\ UNCHANGED <<user_preferences, before, locVars, httpVars, raceVars,
                   model_performance, lines_left>>

\* _llm_chat lines 40-48: the first attempt returns a text
LlmPrimaryReturns(I) ==
    /\ pc = "llm_primary"
    /\ \E model_name \in PrimaryModels(chat.use_random_model, chat.task_complexity),
          text \in TextsFor(I, chat.caller) :
          /\ chat' = [chat EXCEPT !.attempts = <<model_name>>]
          /\ llm_out' = TextStrip(text)
    /\ completions' = Append(completions, chat.caller)
    /\ pc' = AfterChat(chat.caller)
    /\ UNCHANGED <<user_preferences, message, user_id, before, stages, reply,
                   intent, locVars, httpVars, raceVars,
                   model_performance, lines_left>>

\* _llm_chat lines 40-50: the first attempt raises
LlmPrimaryRaises ==
    /\ pc = "llm_primary"
    /\ \E model_name \in PrimaryModels(chat.use_random_model, chat.task_complexity) :
          chat' = [chat EXCEPT !.attempts = <<model_name>>, !.raised = 1]
    /\ completions' = Append(completions, chat.caller)
    /\ pc' = "llm_fallback"
    /\ UNCHANGED <<user_preferences, message, user_id, llm_out, before, stages,
                   reply, intent, locVars, httpVars, raceVars,
                   model_performance, lines_left>>

\* _llm_chat lines 51-58: the attempt with the fallback model returns a text
LlmFallbackReturns(I) ==
    /\ pc = "llm_fallback"
    /\ \E text \in TextsFor(I, chat.caller) : llm_out' = TextStrip(text)
    /\ chat' = [chat EXCEPT !.attempts = Append(@, FallbackModel(chat.attempts[1]))]
    /\ completions' = Append(completions, chat.caller)
    /\ pc' = AfterChat(chat.caller)
    /\ UNCHANGED <<user_preferences, message, user_id, before, stages, reply,
                   intent, locVars, httpVars, raceVars,
                   model_performance, lines_left>>

\* _llm_chat lines 51-61: the fallback attempt raises too
LlmFallbackRaises ==
    /\ pc = "llm_fallback"
    /\ llm_out' = DegradedReply
    /\ chat' = [chat EXCEPT !.attempts = Append(@, FallbackModel(chat.attempts[1])),
                            !.raised = 2]
    /\ completions' = Append(completions, chat.caller)
    /\ pc' = AfterChat(chat.caller)
    /\ UNCHANGED <<user_preferences, message, user_id, before, stages, reply,
                   intent, locVars, httpVars, raceVars,
                   model_performance, lines_left>>

\* extract_user_info lines 117-119: the record of the user is made if the
\* store has none, and the completion is split into its lines
MergeFacts ==
    /\ pc = "merge"
    /\ user_preferences' = EnsureRecord(user_preferences, user_id)
    /\ before' = IF user_id \in DOMAIN user_preferences
                  THEN user_preferences[user_id] ELSE None
    /\ lines_left' = TextStrip(llm_out)
    /\ pc' = "read_lines"
    /\ UNCHANGED <<message, user_id, llm_out, chat, completions, stages, reply,
                   intent, model_performance, locVars, httpVars, raceVars>>

\* lines 120-139, one turn of the loop: the turn of a line with a location
\* that is looked up writes the location (line 124) and then waits for the
\* lookup service (line 125, requests.get of the adapter); every other turn
\* runs to its end
ReadLine ==
    /\ pc = "read_lines"
    /\ lines_left # <<>>
    /\ IF LooksUp(Head(lines_left))
       THEN /\ user_preferences' =
                  Put(user_preferences, user_id,
                      Put(user_preferences[user_id], "location",
                          ValueAfter(Head(lines_left), "Location:")))
            /\ pc' = "lookup"
            /\ UNCHANGED lines_left
       ELSE /\ user_preferences' =
                  Put(user_preferences, user_id,
                      MergeLine(user_preferences[user_id], Head(lines_left), {}))
            /\ lines_left' = Tail(lines_left)
            /\ UNCHANGED pc
    /\ UNCHANGED <<message, user_id, llm_out, chat, completions, before, stages,
                   reply, intent, model_performance, locVars, httpVars, raceVars>>

\* lines 125-127: the lookup has answered (a match, no match, or an error
\* the adapter turns into no match) and the enrichment is written
LookupReturns(I) ==
    /\ pc = "lookup"
    /\ \E found \in SUBSET I.places :
          user_preferences' =
              Put(user_preferences, user_id,
                  Put(user_preferences[user_id], "enhanced_location",
                      get_enhanced_location_info(
                          ValueAfter(Head(lines_left), "Location:"), found)))
    /\ lines_left' = Tail(lines_left)
    /\ pc' = "read_lines"
    /\ UNCHANGED <<message, user_id, llm_out, chat, completions, before, stages,
                   reply, intent, model_performance, locVars, httpVars, raceVars>>

\* line 140: extract_user_info returns; process_user_message goes on
ReturnRecord ==
    /\ pc = "read_lines"
    /\ lines_left = <<>>
    /\ pc' = "shortcut_check"
    /\ chat' = NoChat
    /\ stages' = Append(stages, "SHORTCUT_CHECK")
    /\ UNCHANGED <<user_preferences, message, user_id, llm_out, completions,
                   before, reply, intent, model_performance, lines_left, locVars,
                   httpVars, raceVars>>

\* a pipeline that classifies the intent before it looks at the shortcuts
ShortcutCheck_ClassifyFirst ==
    /\ pc = "shortcut_check"
    /\ pc' = "llm_primary"
    /\ chat' = NewChat("classify", "simple", FALSE)
    /\ stages' = Append(stages, "INTENT_CLASSIFICATION")
    /\ llm_out' = <<>>
    /\ before' = None
    /\ UNCHANGED <<user_preferences, message, user_id, completions, reply,
                   intent, locVars, httpVars, raceVars,
                   model_performance, lines_left>>

\* process_user_message lines 215-221
ShortcutCheck ==
    /\ pc = "shortcut_check"
    /\ IF ShortcutReply(message) # <<>>
       THEN /\ reply' = ShortcutReply(message)
            /\ pc' = "done"
            /\ stages' = Append(stages,
                  IF ShortcutReply(message) = GreetingReply
                  THEN "GREETING_REPLY" ELSE "UNINTELLIGIBLE_REPLY")
            /\ UNCHANGED chat
       ELSE /\ pc' = "llm_primary"
            /\ chat' = NewChat("classify", "simple", FALSE)
            /\ stages' = Append(stages, "INTENT_CLASSIFICATION")
            /\ UNCHANGED reply
    /\ llm_out' = <<>>
    /\ before' = None
    /\ UNCHANGED <<user_preferences, message, user_id, completions, intent, locVars,
                   httpVars, raceVars,
                   model_performance, lines_left>>

\* process_user_message lines 221-224 and generate_fashion_response
IntentCheck ==
    /\ pc = "intent_check"
    /\ IF ~InList(llm_out, IntentCategories)
       THEN /\ reply' = NotUnderstoodReply
            /\ pc' = "done"
            /\ chat' = NoChat
            /\ stages' = Append(stages, "UNINTELLIGIBLE_REPLY")
       ELSE /\ pc' = "llm_primary"
            /\ chat' = NewChat("generate", "complex", TRUE)
            /\ stages' = Append(stages, "RESPONSE_GENERATION")
            /\ UNCHANGED reply
    /\ intent' = llm_out
    /\ llm_out' = <<>>
    /\ UNCHANGED <<user_preferences, message, user_id, completions, before,
                   locVars, httpVars, raceVars,
                   model_performance, lines_left>>

\* process_user_message line 224: the generated text is the reply
ReturnResponse ==
    /\ pc = "return"
    /\ reply' = llm_out
    /\ pc' = "done"
    /\ chat' = NoChat
    /\ llm_out' = <<>>
    /\ stages' = Append(stages, "REPLY")
    /\ UNCHANGED <<user_preferences, message, user_id, completions, before,
                   intent, locVars, httpVars, raceVars,
                   model_performance, lines_left>>

\* handle_message line 22: the transport sends the reply; the request is over
SendReply ==
    /\ pc = "done"
    /\ pc' = "idle"
    /\ message' = <<>>
    /\ user_id' = "none"
    /\ completions' = <<>>
    /\ stages' = <<>>
    /\ reply' = <<>>
    /\ intent' = <<>>
    /\ UNCHANGED <<user_preferences, llm_out, chat, before, locVars, httpVars, raceVars,
                   model_performance, lines_left>>

\* track_model_performance called by a user of the module: no function of
\* the repository calls it
TrackModelPerformance ==
    /\ \E model_name \in DOMAIN model_performance, success \in BOOLEAN :
          /\ model_performance[model_name].success
                + model_performance[model_name].failures < MaxTracked
          /\ model_performance' =
                track_model_performance(model_performance, model_name, success)
    /\ UNCHANGED <<user_preferences, pc, message, user_id, llm_out, chat,
                   completions, before, stages, reply, intent, lines_left,
                   locVars, httpVars, raceVars>>

PipelineNext(I) ==
    \/ ProcessUserMessage(I)
    \/ LlmPrimaryReturns(I)
    \/ LlmPrimaryRaises
    \/ LlmFallbackReturns(I)
    \/ LlmFallbackRaises
    \/ MergeFacts
    \/ ReadLine
    \/ LookupReturns(I)
    \/ ReturnRecord
    \/ ShortcutCheck
    \/ IntentCheck
    \/ ReturnResponse
    \/ SendReply

(***************************************************************************)
(* Two callers of extract_user_info at once.  The server that hosts the    *)
(* pipeline runs process_user_message on the thread of each request, and   *)
(* every web request carries the user identifier 'web_user'.  A thread     *)
(* gives way to the other between two statements and while it waits for    *)
(* the completion or the lookup service.                                   *)
(***************************************************************************)
Requests == {"r1", "r2"}
WebUser == "web_user"

\* the completions the two requests may get at line 116
RaceTexts ==
    {AllUnknownText, <<Labelled("Budget:", "$200")>>,
     <<Labelled("Location:", "Paris")>>, <<Labelled("Location:", "Rome")>>,
     <<Labelled("Body Type:", "slim"), Labelled("Budget:", "$50-100")>>}

\* the threads that call the enrichment entry points of location.py and
\* gemini_utils.py
Callers == {"t1", "t2"}

\* a thread that is in no call
IdleCall ==
    [pc |-> "idle", via |-> "none", location |-> <<>>, matches |-> <<>>,
     location_info |-> None, fell_back |-> FALSE]

NoCalls == [c \in Callers |-> IdleCall]

NoThreads ==
    [r \in Requests |-> [pc |-> "idle", extracted |-> <<>>, lines |-> <<>>]]

raceFrame == <<pc, message, user_id, llm_out, chat, completions, before, stages,
               reply, intent, model_performance, lines_left, locVars, httpVars>>

\* line 116: _llm_chat returns the completion of the request
ThreadExtract(r) ==
    /\ threads[r].pc = "idle"
    /\ \E text \in RaceTexts :
          threads' = [threads EXCEPT ![r] =
                         [pc |-> "check", extracted |-> text, lines |-> <<>>]]
    /\ UNCHANGED <<user_preferences, raceFrame>>

\* line 117: the test user_id not in user_preferences
ThreadCheck(r) ==
    /\ threads[r].pc = "check"
    /\ threads' = [threads EXCEPT ![r].pc =
                      IF WebUser \notin DOMAIN user_preferences
                      THEN "create" ELSE "split"]
    /\ UNCHANGED <<user_preferences, raceFrame>>

\* line 118: user_preferences[user_id] = {}, the test having found no record
ThreadCreate(r) ==
    /\ threads[r].pc = "create"
    /\ user_preferences' = Put(user_preferences, WebUser, EmptyDict)
    /\ threads' = [threads EXCEPT ![r].pc = "split"]
    /\ UNCHANGED raceFrame

\* line 119: lines = extracted.strip().split('\n')
ThreadSplit(r) ==
    /\ threads[r].pc = "split"
    /\ threads' = [threads EXCEPT ![r].pc = "loop",
                                  ![r].lines = TextStrip(threads[r].extracted)]
    /\ UNCHANGED <<user_preferences, raceFrame>>

\* lines 120-139: one turn of the loop, on the record the store holds now;
\* the turn of a location that is looked up stops in the lookup of line 125,
\* the location written (line 124)
ThreadLine(r) ==
    /\ threads[r].pc = "loop"
    /\ threads[r].lines # <<>>
    /\ IF LooksUp(Head(threads[r].lines))
       THEN /\ user_preferences' =
                  Put(user_preferences, WebUser,
                      Put(user_preferences[WebUser], "location",
                          ValueAfter(Head(threads[r].lines), "Location:")))
            /\ threads' = [threads EXCEPT ![r].pc = "lookup"]
       ELSE /\ user_preferences' =
                  Put(user_preferences, WebUser,
                      MergeLine(user_preferences[WebUser], Head(threads[r].lines),
                                {}))
            /\ threads' = [threads EXCEPT ![r].lines = Tail(threads[r].lines)]
    /\ UNCHANGED raceFrame

\* lines 125-127: the lookup answers and the enrichment is written to the
\* record the store holds now
ThreadLookupReturns(r) ==
    /\ threads[r].pc = "lookup"
    /\ \E found \in SUBSET Places :
          user_preferences' =
              Put(user_preferences, WebUser,
                  Put(user_preferences[WebUser], "enhanced_location",
                      get_enhanced_location_info(
                          ValueAfter(Head(threads[r].lines), "Location:"), found)))
    /\ threads' = [threads EXCEPT ![r].pc = "loop",
                                  ![r].lines = Tail(threads[r].lines)]
    /\ UNCHANGED raceFrame

\* line 140: return user_preferences[user_id]
ThreadReturn(r) ==
    /\ threads[r].pc = "loop"
    /\ threads[r].lines = <<>>
    /\ threads' = [threads EXCEPT ![r].pc = "done"]
    /\ UNCHANGED <<user_preferences, raceFrame>>

RaceNext ==
    \E r \in Requests :
       \/ ThreadExtract(r)
       \/ ThreadCheck(r)
       \/ ThreadCreate(r)
       \/ ThreadSplit(r)
       \/ ThreadLine(r)
       \/ ThreadLookupReturns(r)
       \/ ThreadReturn(r)

Init ==
    /\ user_preferences = EmptyDict
    /\ pc = "idle"
    /\ message = <<>>
    /\ user_id = "none"
    /\ llm_out = <<>>
    /\ chat = NoChat
    /\ completions = <<>>
    /\ before = None
    /\ stages = <<>>
    /\ reply = <<>>
    /\ intent = <<>>
    /\ model_performance = NoAttempts
    /\ lines_left = <<>>
    /\ polygon_calls = EmptyDict
    /\ location_cache = EmptyDict
    /\ classification_cache = EmptyDict
    /\ enriched = None
    /\ parsed = None
    /\ calls = NoCalls
    /\ app_state = "not_started"
    /\ http = None
    /\ threads = NoThreads

\* the pipeline over every message
Next == PipelineNext(PipelineInputs)
Spec == Init /\ [][Next]_vars

\* the counters of the models under calls of track_model_performance
PerformanceNext == TrackModelPerformance
PerformanceSpec == Init /\ [][PerformanceNext]_vars

\* two requests of one user running extract_user_info at once
RaceSpec == Init /\ [][RaceNext]_vars

\* one message of every kind, two extraction responses
LiveInputs ==
    [msgs |-> {<<"h", "i">>, <<" ", "H", "i">>, <<"h", "1">>, <<"é">>, <<"!">>,
               <<"h", " ", "i">>, <<"h", "i", " ", "h", "i", "!">>},
     users |-> UserIds,
     extract |-> {<<Labelled("Budget:", "$200")>>, <<Labelled("Location:", "Paris")>>},
     intent |-> IntentTexts, generate |-> GenerateTexts, places |-> Places]

\* the steps a request takes once process_user_message has been called:
\* every call blocks until its outbound call returns or raises
RequestStep(I) ==
    \/ LlmPrimaryReturns(I)
    \/ LlmPrimaryRaises
    \/ LlmFallbackReturns(I)
    \/ LlmFallbackRaises
    \/ MergeFacts
    \/ ReadLine
    \/ LookupReturns(I)
    \/ ReturnRecord
    \/ ShortcutCheck
    \/ IntentCheck
    \/ ReturnResponse
    \/ SendReply

\* the pipeline whose requests, once started, keep running
LiveNext == PipelineNext(LiveInputs)
LiveSpec == Init /\ [][LiveNext]_vars /\ WF_vars(RequestStep(LiveInputs))

\* the pipeline over every extraction response
FactNext == PipelineNext(FactInputs)
FactSpec == Init /\ [][FactNext]_vars

(***************************************************************************)
(* The claims about the request pipeline.                                  *)
(***************************************************************************)
GreetingTokens == {greetings[i] : i \in 1..Len(greetings)}
Letters == AsciiLetters \cup OtherLetters
Digits == AsciiDigits

\* the message is one whitespace-delimited token made of the characters of S
SingleTokenOf(m, S) ==
    /\ Len(split(m)) = 1
    /\ \A i \in 1..Len(split(m)[1]) : split(m)[1][i] \in S

\* the message is a greeting token once trimmed and lower-cased
IsGreeting(m) == lower(strip(m)) \in GreetingTokens

UserRecord == IF user_id \in DOMAIN user_preferences
              THEN user_preferences[user_id] ELSE EmptyDict

\* C1: a request whose message, trimmed and lower-cased, is a greeting token
\* ends with exactly the fixed greeting reply, whatever the store held and
\* whatever fact extraction got from the completion service.
C1_GreetingReply ==
    (pc = "done" /\ IsGreeting(message)) => reply = GreetingReply

\* C1 witness: a padded, capitalised greeting was answered with the greeting
\* while the store already held a budget and fact extraction had failed twice
C1_Witness ==
    /\ pc = "done"
    /\ message = <<" ", "H", "i">>
    /\ reply = GreetingReply
    /\ "budget" \in DOMAIN UserRecord
    /\ Len(completions) = 2

\* C2 as stated: a message of one token of letters and digits that is not a
\* greeting never reaches intent classification and is answered with the
\* "didn't understand" reply.
C2_Original ==
    (SingleTokenOf(message, Letters \cup Digits) /\ ~IsGreeting(message)) =>
        /\ \A i \in 1..Len(stages) : stages[i] # "INTENT_CLASSIFICATION"
        /\ pc = "done" => reply = NotUnderstoodReply

\* C2 amended: a message of one token of ASCII letters and digits that is not
\* a greeting never reaches intent classification or response generation and
\* is answered with the "didn't understand" reply.
C2_AsciiTokenNotUnderstood ==
    (SingleTokenOf(message, AsciiLetters \cup AsciiDigits) /\ ~IsGreeting(message)) =>
        /\ \A i \in 1..Len(stages) :
              stages[i] \notin {"INTENT_CLASSIFICATION", "RESPONSE_GENERATION"}
        /\ \A i \in 1..Len(completions) : completions[i] = "extract"
        /\ pc = "done" => reply = NotUnderstoodReply

\* C2 witness: the padded token "h1" was answered with "didn't understand"
C2_Witness ==
    /\ pc = "done"
    /\ message = <<" ", "h", "1">>
    /\ reply = NotUnderstoodReply
    /\ stages = <<"FACT_EXTRACTION", "SHORTCUT_CHECK", "UNINTELLIGIBLE_REPLY">>

\* the request ended in a short-circuit reply
ShortCircuited ==
    /\ pc = "done"
    /\ \/ IsGreeting(message)
       \/ SingleTokenOf(message, AsciiLetters \cup AsciiDigits)

\* C3 as stated: a request that ends in a short-circuit reply has invoked the
\* completion service zero times.
C3_Original == ShortCircuited => Len(completions) = 0

\* C3 amended: a request that ends in a short-circuit reply has invoked the
\* completion service only for fact extraction, once or (when the first
\* attempt raised) twice, and never for classification or generation.
C3_OnlyExtractionCompletions ==
    ShortCircuited =>
        /\ Len(completions) \in {1, 2}
        /\ \A i \in 1..Len(completions) : completions[i] = "extract"

\* C3 witness: a greeting was answered after one extraction completion
C3_Witness ==
    /\ pc = "done"
    /\ message = <<"h", "i">>
    /\ reply = GreetingReply
    /\ completions = <<"extract">>

\* C9: when the primary attempt of _llm_chat raised, exactly one further
\* attempt is made, with a model different from the primary; when that one
\* raised too, _llm_chat returns the degraded string to its caller (which
\* for extract_user_info then goes through the lines of the text).
C9_CompletionFallback ==
    chat.raised > 0 =>
        IF pc = "llm_fallback"
        THEN Len(chat.attempts) = 1
        ELSE /\ Len(chat.attempts) = 2
             /\ chat.attempts[2] # chat.attempts[1]
             /\ \/ pc = AfterChat(chat.caller)
                \/ chat.caller = "extract" /\ pc \in {"read_lines", "lookup"}
             /\ chat.raised = 2 => llm_out = DegradedReply

\* C9 witness: the classifier's call failed on gemini-1.5-flash and on the
\* fallback, and the classifier got the degraded string
C9_Witness ==
    /\ chat.caller = "classify"
    /\ chat.raised = 2
    /\ chat.attempts[1] = "models/gemini-1.5-flash"
    /\ pc = "intent_check"
    /\ llm_out = DegradedReply

(***************************************************************************)
(* The claims about the fact merge.                                        *)
(***************************************************************************)
Labels == <<"Location:", "Body Type:", "Style Preferences:", "Budget:">>
FactFields == {"location", "enhanced_location", "body_type",
               "style_preferences", "budget"}

FieldOf(label) ==
    CASE label = "Location:" -> "location"
      [] label = "Body Type:" -> "body_type"
      [] label = "Style Preferences:" -> "style_preferences"
      [] OTHER -> "budget"

\* every one of the four labels stands on a line of the response with the
\* value "unknown", and the response has no other line
AllFourUnknown(text) ==
    /\ \A k \in 1..Len(Labels) :
          \E i \in 1..Len(text) : strip(text[i]) = Labelled(Labels[k], "unknown")
    /\ \A i \in 1..Len(text) :
          \E k \in 1..Len(Labels) : strip(text[i]) = Labelled(Labels[k], "unknown")

\* the label a line is read under: the first of the four it contains
LineLabel(line) ==
    IF \E k \in 1..Len(Labels) : Contains(line, Labels[k])
    THEN Labels[Min({k \in 1..Len(Labels) : Contains(line, Labels[k])})]
    ELSE "none"

\* the values a response gives for a label, in the order of its lines
RECURSIVE ValuesFor(_, _)
ValuesFor(text, label) ==
    IF text = <<>>
    THEN <<>>
    ELSE (IF LineLabel(Head(text)) = label
          THEN <<strip(ValueAfter(Head(text), label))>> ELSE <<>>)
         \o ValuesFor(Tail(text), label)

KnownValues(text, label) == SelectSeq(ValuesFor(text, label), LAMBDA v : v # Unknown)

\* the response gives a value other than "unknown" for this label only
OnlyField(text, label) ==
    /\ KnownValues(text, label) # <<>>
    /\ \A k \in 1..Len(Labels) :
          Labels[k] # label => KnownValues(text, Labels[k]) = <<>>

\* the last value other than "unknown" the response gives for the label
LastValue(text, label) ==
    KnownValues(text, label)[Len(KnownValues(text, label))]

\* field f is the same in the record as it was before the merge
SameField(f) ==
    /\ (f \in DOMAIN UserRecord) = (f \in DOMAIN before)
    /\ f \in DOMAIN UserRecord => UserRecord[f] = before[f]

Merged == pc = "shortcut_check"

\* C4: an extraction response whose four labelled values are all "unknown"
\* leaves every field of an existing record of the user as it was.
C4_UnknownKeepsRecord ==
    (Merged /\ before # None /\ AllFourUnknown(llm_out)) =>
        \A f \in FactFields : SameField(f)

\* C4 witness: an all-unknown response was merged into a record that holds
\* a location, its enrichment, a body type and a budget
C4_Witness ==
    /\ Merged
    /\ before # None
    /\ AllFourUnknown(llm_out)
    /\ {"location", "enhanced_location", "body_type", "budget"} \subseteq DOMAIN UserRecord
    /\ UserRecord = before

\* C5 as stated: a response with a value other than "unknown" for one field
\* only sets that field to the new value and leaves every other field of the
\* record unchanged.
C5_Original ==
    \A k \in 1..Len(Labels) :
        (Merged /\ before # None /\ OnlyField(llm_out, Labels[k])) =>
            /\ UserRecord[FieldOf(Labels[k])] = LastValue(llm_out, Labels[k])
            /\ \A f \in FactFields \ {FieldOf(Labels[k])} : SameField(f)

\* the record holds the enrichment the merge made for the new location
Enriched(location) ==
    /\ "enhanced_location" \in DOMAIN UserRecord
    /\ UserRecord["enhanced_location"].original_query = location

\* C5 amended: such a response sets that field to the new value and leaves
\* every other field unchanged, except that a new location also replaces
\* enhanced_location by the enrichment of the new location, unless that
\* location is empty or "unknown" in some letter case; a later extraction
\* for the same field overwrites the earlier value.
C5_LastWriteWinsPerField ==
    \A k \in 1..Len(Labels) :
        (Merged /\ before # None /\ OnlyField(llm_out, Labels[k])) =>
            /\ UserRecord[FieldOf(Labels[k])] = LastValue(llm_out, Labels[k])
            /\ \A f \in FactFields \ {FieldOf(Labels[k]), "enhanced_location"} :
                  SameField(f)
            /\ IF Labels[k] = "Location:"
                  /\ LastValue(llm_out, Labels[k]) # <<>>
                  /\ lower(LastValue(llm_out, Labels[k])) # Unknown
               THEN Enriched(LastValue(llm_out, Labels[k]))
               ELSE SameField("enhanced_location")

\* C5 witness: a budget of $50-100 replaced a budget of $200 in a record that
\* holds a location, its enrichment and a body type
C5_Witness ==
    /\ Merged
    /\ before # None
    /\ OnlyField(llm_out, "Budget:")
    /\ {"location", "enhanced_location", "body_type", "budget"} \subseteq DOMAIN before
    /\ before["budget"] = <<"$200">>
    /\ UserRecord["budget"] = <<"$50-100">>
    /\ UserRecord["location"] = before["location"]

(***************************************************************************)
(* location.py: the parse of a classification response.  A JSON value is   *)
(* tagged with its type: Str, List, Dict, Null; a string is a sequence of  *)
(* atoms.  A response either holds a JSON object json.loads decodes (the   *)
(* object is given) or it does not (its lines are given).                  *)
(***************************************************************************)
Str(x) == [t |-> "str", v |-> x]
List(x) == [t |-> "list", v |-> x]
Dict(x) == [t |-> "dict", v |-> x]

required_fields == <<"region", "climate_zone", "fashion_market">>
list_fields == <<"local_brands", "available_stores", "online_platforms",
                 "cultural_considerations", "popular_styles">>
EmptyClimateRecommendations ==
    Dict([fabrics |-> List(<<>>), colors |-> List(<<>>), styles |-> List(<<>>),
          essentials |-> List(<<>>)])

RECURSIVE FillRequired(_, _)
\* lines 118-121: a required field the object lacks becomes 'unknown'
FillRequired(classification, fields) ==
    IF fields = <<>>
    THEN classification
    ELSE FillRequired(
             IF Head(fields) \notin DOMAIN classification
             THEN Put(classification, Head(fields), Str(<<"unknown">>))
             ELSE classification,
             Tail(fields))

RECURSIVE EnsureLists_AbsentOnly(_, _)
\* a check that fills the list fields the object lacks and keeps the others
EnsureLists_AbsentOnly(classification, fields) ==
    IF fields = <<>>
    THEN classification
    ELSE EnsureLists_AbsentOnly(
             IF Head(fields) \notin DOMAIN classification
             THEN Put(classification, Head(fields), List(<<>>))
             ELSE classification,
             Tail(fields))

RECURSIVE EnsureLists(_, _)
\* lines 124-127: a list field that is absent or not a list becomes []
EnsureLists(classification, fields) ==
    IF fields = <<>>
    THEN classification
    ELSE EnsureLists(
             IF Head(fields) \notin DOMAIN classification
                \/ classification[Head(fields)].t # "list"
             THEN Put(classification, Head(fields), List(<<>>))
             ELSE classification,
             Tail(fields))

\* lines 130-133: climate_recommendations is added when the key is absent
EnsureClimate(classification) ==
    IF "climate_recommendations" \notin DOMAIN classification
    THEN Put(classification, "climate_recommendations", EmptyClimateRecommendations)
    ELSE classification

\* lines 146-160: the defaults of the text parse
TextDefaults ==
    [region |-> Str(<<"unknown">>),
     climate_zone |-> Str(<<"temperate">>),
     fashion_market |-> Str(<<"international">>),
     local_brands |-> List(<<>>),
     available_stores |-> List(<<>>),
     online_platforms |-> List(<<>>),
     cultural_considerations |-> List(<<>>),
     seasonal_info |-> Str(<<"Varies", " ", "by", " ", "season">>),
     price_range_info |-> Str(<<"Varies">>),
     popular_styles |-> List(<<>>),
     climate_recommendations |-> EmptyClimateRecommendations]

\* the field a normalised key of a text line names, or "none"
KeyName(key) ==
    CASE key = <<"region">> -> "region"
      [] key = <<"climate", "_", "zone">> -> "climate_zone"
      [] key = <<"fashion", "_", "market">> -> "fashion_market"
      [] key = <<"seasonal", "_", "info">> -> "seasonal_info"
      [] key = <<"price", "_", "range", "_", "info">> -> "price_range_info"
      [] key = <<"local", "_", "brands">> -> "local_brands"
      [] key = <<"available", "_", "stores">> -> "available_stores"
      [] key = <<"online", "_", "platforms">> -> "online_platforms"
      [] key = <<"cultural", "_", "considerations">> -> "cultural_considerations"
      [] key = <<"popular", "_", "styles">> -> "popular_styles"
      [] OTHER -> "none"

\* parts[0].strip().lower().replace(' ', '_').replace('-', '_')
NormalizeKey(k) ==
    [i \in 1..Len(strip(k)) |->
        IF lower(strip(k))[i] \in {" ", "-"} THEN "_" ELSE lower(strip(k))[i]]

RECURSIVE StripQuotes(_)
\* value.strip('"')
StripQuotes(v) ==
    IF v # <<>> /\ Head(v) = "\""
    THEN StripQuotes(Tail(v))
    ELSE IF v # <<>> /\ v[Len(v)] = "\""
         THEN StripQuotes(SubSeq(v, 1, Len(v) - 1))
         ELSE v

RECURSIVE QuotedItems(_, _, _)
\* re.findall(r'"([^"]+)"', value): the non-empty runs between two quotes
QuotedItems(v, cur, open) ==
    IF v = <<>>
    THEN <<>>
    ELSE IF Head(v) = "\""
         THEN IF open /\ cur # <<>>
              THEN <<cur>> \o QuotedItems(Tail(v), <<>>, FALSE)
              ELSE QuotedItems(Tail(v), <<>>, TRUE)
         ELSE QuotedItems(Tail(v), IF open THEN Append(cur, Head(v)) ELSE cur, open)

RECURSIVE CommaSplit(_, _)
\* value.replace('[', '').replace(']', '').split(','), each item trimmed
CommaSplit(v, cur) ==
    IF v = <<>>
    THEN <<strip(cur)>>
    ELSE IF Head(v) = ","
         THEN <<strip(cur)>> \o CommaSplit(Tail(v), <<>>)
         ELSE CommaSplit(Tail(v),
                         IF Head(v) \in {"[", "]"} THEN cur ELSE Append(cur, Head(v)))

\* lines 177-181: the items of a bracketed list value
ListItems(value) ==
    LET items == IF QuotedItems(value, <<>>, FALSE) # <<>>
                 THEN QuotedItems(value, <<>>, FALSE)
                 ELSE CommaSplit(value, <<>>)
        kept == SelectSeq(items, LAMBDA item : strip(item) # <<>>)
    IN  [i \in 1..Len(kept) |-> strip(StripQuotes(kept[i]))]

\* one turn of the loop of _parse_text_classification_response (lines 166-181)
ParseTextLine(classification, raw) ==
    LET line == strip(raw)
    IN  IF Contains(line, ":") /\ ~(line # <<>> /\ Head(line) = "-")
        THEN LET colon == Min({i \in 1..Len(line) : line[i] = ":"})
                 key == KeyName(NormalizeKey(SubSeq(line, 1, colon - 1)))
                 value == strip(SubSeq(line, colon + 1, Len(line)))
             IN  IF key \in {"region", "climate_zone", "fashion_market",
                             "seasonal_info", "price_range_info"}
                 THEN Put(classification, key, Str(StripQuotes(value)))
                 ELSE IF key \in {list_fields[i] : i \in 1..Len(list_fields)}
                         /\ Contains(value, "[") /\ Contains(value, "]")
                      THEN Put(classification, key, List(ListItems(value)))
                      ELSE classification
        ELSE classification

RECURSIVE ParseTextLines(_, _)
ParseTextLines(classification, lines) ==
    IF lines = <<>>
    THEN classification
    ELSE ParseTextLines(ParseTextLine(classification, Head(lines)), Tail(lines))

\* _parse_text_classification_response
_parse_text_classification_response(lines) == ParseTextLines(TextDefaults, lines)

\* _parse_llm_classification_response: response.json is the object json.loads
\* decodes from the braces of the response, or None when there are no braces
\* or they do not decode; response.lines is the text of the response
_parse_llm_classification_response(response) ==
    IF response.json # None
    THEN EnsureClimate(EnsureLists(FillRequired(response.json, required_fields),
                                   list_fields))
    ELSE _parse_text_classification_response(response.lines)

(***************************************************************************)
(* location.py: LocationBasedFashionAssistant and enhanced_location_extract*)
(***************************************************************************)
PyNone == [t |-> "null"]

\* d.get(k, default)
Get(d, k, default) == IF k \in DOMAIN d THEN d[k] ELSE default

\* bool(x) of None or a string
Truthy(x) == x.t # "null" /\ x.v # <<>>

\* a or b or c
FirstTruthy(a, b, c) == IF Truthy(a) THEN a ELSE IF Truthy(b) THEN b ELSE c

\* str(x) inside an f-string
Format(x) == IF x.t = "null" THEN <<"None">> ELSE x.v

\* lines 25-38 of get_enhanced_location_info
LocationInfo(location, polygon_data) ==
    LET address_details == Get(polygon_data, "address_details", EmptyDict)
    IN  [original |-> location,
         display_name |-> Get(polygon_data, "display_name", <<>>),
         city |-> FirstTruthy(Get(address_details, "city", PyNone),
                              Get(address_details, "town", PyNone),
                              Get(address_details, "village", PyNone)),
         state |-> Get(address_details, "state", PyNone),
         country |-> Get(address_details, "country", PyNone),
         latitude |-> Get(polygon_data, "latitude", <<"0">>),
         longitude |-> Get(polygon_data, "longitude", <<"0">>),
         source |-> Get(polygon_data, "source", "nominatim")]

\* line 52: location_key
LocationKey(location_info) ==
    Format(Get(location_info, "city", Str(<<>>))) \o <<"-">>
        \o Format(Get(location_info, "country", Str(<<>>)))

\* dict.update
Update(d, e) ==
    [k \in DOMAIN d \cup DOMAIN e |-> IF k \in DOMAIN e THEN e[k] ELSE d[k]]

\* the call of llm_chat raised
LlmRaises == [raises |-> TRUE]

\* an exception left the function
Raised(exception) == [raised |-> exception]

\* term in country
HasTerm(country, term) ==
    \E i \in 1..Len(country) :
        /\ i + Len(term) - 1 <= Len(country)
        /\ SubSeq(country, i, i + Len(term) - 1) = term

HasAny(country, terms) == \E term \in terms : HasTerm(country, term)

SouthAsiaTerms == {<<"india">>, <<"pakistan">>, <<"bangladesh">>, <<"sri", " ", "lanka">>}
NorthAmericaTerms == {<<"united", " ", "states">>, <<"usa">>, <<"canada">>}
EuropeTerms == {<<"united", " ", "kingdom">>, <<"france">>, <<"germany">>,
                <<"spain">>, <<"italy">>}

\* lines 190-207: fallback_data
fallback_data ==
    [region |-> Str(<<"unknown">>),
     climate_zone |-> Str(<<"temperate">>),
     fashion_market |-> Str(<<"international">>),
     local_brands |-> List(<< <<"Zara">>, <<"H&M">>, <<"Uniqlo">> >>),
     available_stores |-> List(<< <<"Local malls">>, <<"Online retailers">> >>),
     online_platforms |-> List(<< <<"Amazon">>, <<"Local e-commerce">> >>),
     cultural_considerations |->
         List(<< <<"Weather appropriate">>, <<"Occasion suitable">> >>),
     seasonal_info |-> Str(<<"Four seasons with varying temperatures">>),
     price_range_info |-> Str(<<"Mid-range pricing">>),
     popular_styles |-> List(<< <<"Casual">>, <<"Smart casual">>, <<"Formal">> >>),
     climate_recommendations |->
         Dict([fabrics |-> List(<< <<"Cotton">>, <<"Polyester blends">> >>),
               colors |-> List(<< <<"Neutral tones">>, <<"Seasonal colors">> >>),
               styles |-> List(<< <<"Layerable pieces">>, <<"Versatile basics">> >>),
               essentials |-> List(<< <<"Jacket">>, <<"Comfortable shoes">> >>)])]

\* _get_basic_fallback_classification (lines 185-218): .lower() of a country
\* that is None raises AttributeError
_get_basic_fallback_classification(location_info) ==
    LET given == Get(location_info, "country", Str(<<>>))
        country == lower(given.v)
    IN  IF given.t = "null"
        THEN Raised("AttributeError")
        ELSE IF HasAny(country, SouthAsiaTerms)
        THEN [fallback_data EXCEPT !.region = Str(<<"south_asia">>),
                                   !.climate_zone = Str(<<"tropical">>)]
        ELSE IF HasAny(country, NorthAmericaTerms)
        THEN [fallback_data EXCEPT !.region = Str(<<"north_america">>)]
        ELSE IF HasAny(country, EuropeTerms)
        THEN [fallback_data EXCEPT !.region = Str(<<"europe">>)]
        ELSE fallback_data

(***************************************************************************)
(* The classification responses the model draws.                           *)
(***************************************************************************)
Absent == [t |-> "absent"]

\* for every key of a JSON object: leave it out, or one of its values
JsonChoices ==
    [region : {Absent, Str(<<"south_asia">>)},
     climate_zone : {Absent, Str(<<"tropical">>)},
     fashion_market : {Absent, Str(<<"indian">>)},
     seasonal_info : {Absent, Str(<<"monsoon">>)},
     price_range_info : {Absent, Str(<<"INR">>)},
     local_brands : {Absent, List(<<<<"Fabindia">>, <<"Myntra">>>>), Str(<<"Fabindia">>)},
     available_stores : {Absent, List(<<<<"Lifestyle">>>>), PyNone},
     online_platforms : {Absent, List(<<<<"Ajio">>>>)},
     cultural_considerations : {Absent, List(<<>>)},
     popular_styles : {Absent, Str(<<"kurta">>)},
     climate_recommendations :
         {Absent,
          Dict([fabrics |-> List(<<<<"cotton">>>>), colors |-> List(<<>>),
                styles |-> List(<<>>), essentials |-> List(<<>>)]),
          Dict([fabrics |-> List(<<<<"cotton">>>>)]),
          Str(<<"light">>)}]

\* the JSON object of a choice
ToObject(c) == [k \in {k \in DOMAIN c : c[k] # Absent} |-> c[k]]

JsonResponses == {[json |-> ToObject(c), lines |-> <<>>] : c \in JsonChoices}

TextLines ==
    { <<"Region", ":", " ", "europe">>,
      <<" ", "Climate", " ", "Zone", ":", " ", "\"", "arid", "\"">>,
      <<"-", " ", "region", ":", " ", "asia">>,
      <<"local", "_", "brands", ":", " ", "[", "\"", "Zara", "\"", ",", " ",
        "\"", "H&M", "\"", "]">>,
      <<"popular", "-", "styles", ":", " ", "[", "Casual", ",", " ", "Formal", ",", "]">>,
      <<"{", "region", ":", " ", "europe", "}">>,
      <<"seasonal", "_", "info", ":", " ", "hot", " ", "summers">>,
      <<"I'm having trouble generating a response right now. Please try again.">> }

TextResponses ==
    {[json |-> None, lines |-> l] :
        l \in UNION {[1..n -> TextLines] : n \in 1..MaxTextLines}}

ClassificationResponses == JsonResponses \cup TextResponses

\* the response of mock_llm_chat (line 363)
MockResponse ==
    [json |-> [region |-> Str(<<"south_asia">>), climate_zone |-> Str(<<"tropical">>),
               local_brands |-> List(<< <<"Fabindia">>, <<"Myntra">>, <<"Ajio">> >>),
               fashion_market |-> Str(<<"indian">>)],
     lines |-> <<>>]

\* a JSON object with the three required scalars and no list field
Scenario4Response ==
    [json |-> [region |-> Str(<<"south_asia">>), climate_zone |-> Str(<<"tropical">>),
               fashion_market |-> Str(<<"indian">>)],
     lines |-> <<>>]
\* what llm_chat does in a classification: it returns a JSON object, it
\* returns the degraded string, or it raises
EnrichResponses ==
    {MockResponse, [json |-> None, lines |-> DegradedReply], LlmRaises}

\* the location_info a caller may hand to the fallback
FallbackCountries ==
    {PyNone, Str(<<>>), Str(<<"India">>), Str(<<"Sri", " ", "Lanka">>),
     Str(<<"Canada">>), Str(<<"France">>), Str(<<"Utopia">>)}

Queries == Places \cup {<<"Atlantis">>}

(***************************************************************************)
(* The enrichment entry points, and the parse called on its own.           *)
(***************************************************************************)
RECURSIVE Sum(_, _)
Sum(f, S) == IF S = {} THEN 0
             ELSE LET x == CHOOSE x \in S : TRUE IN f[x] + Sum(f, S \ {x})
TotalLookups == Sum(polygon_calls, DOMAIN polygon_calls)

\* one more lookup-adapter call for the query
Counted(counts, query) == Put(counts, query, Get(counts, query, 0) + 1)

\* _parse_llm_classification_response called with the response at hand
ParseClassification ==
    /\ parsed # None
    /\ parsed.result = None
    /\ parsed' = [response |-> parsed.response,
                  result |-> _parse_llm_classification_response(parsed.response)]
    /\ UNCHANGED <<pipeVars, polygon_calls, location_cache, classification_cache,
                   enriched, calls, httpVars, raceVars>>

\* the lookups the calls under way may still make
Pending ==
    Sum([c \in Callers |-> IF calls[c].pc = "lookup"
                           THEN 1 + Len(calls[c].matches) ELSE 0], Callers)

\* what re.findall gives for the patterns of lines 308-313, pattern after
\* pattern: names of places, and words that are none
RawMatches == Queries \cup {<<"The">>, <<"It">>}

\* the number of characters of a word
WordLen(word) ==
    CASE word = "It" -> 2
      [] word = "The" -> 3
      [] word = "Rome" -> 4
      [] word = "Paris" -> 5
      [] word = "Atlantis" -> 8
      [] OTHER -> 1

RECURSIVE StrLen(_)
\* len(s)
StrLen(s) == IF s = <<>> THEN 0 ELSE WordLen(Head(s)) + StrLen(Tail(s))

\* lines 317-319: the matches, stripped, that are longer than two characters
\* and none of the four words
Candidates(matches) ==
    SelectSeq([i \in 1..Len(matches) |-> strip(matches[i])],
              LAMBDA location : /\ StrLen(location) > 2
                                /\ lower(location) \notin
                                      {<<"the">>, <<"and">>, <<"for">>, <<"with">>})

\* line 341 of generate_enhanced_fashion_response
AskLocationReply ==
    <<"I'd love to give you location-specific advice! Could you let me know which city/country you're in?">>

\* the call of thread c is over, with this value returned or raised; in
\* generate_enhanced_fashion_response the location found goes into the
\* prompt of one more completion (lines 332-337), and no location found is
\* answered with the question of line 341
Returns(c, result, looked_up, fell_back) ==
    IF calls[c].via = "generate" /\ result # None
          /\ result # Raised("AttributeError")
    THEN /\ calls' = [calls EXCEPT ![c].pc = "respond",
                                   ![c].location_info = result]
         /\ UNCHANGED enriched
    ELSE /\ enriched' =
                [via |-> calls[c].via, query |-> calls[c].location,
                 result |-> IF calls[c].via = "generate" /\ result = None
                            THEN [text |-> AskLocationReply] ELSE result,
                 looked_up |-> looked_up, fell_back |-> fell_back]
         /\ calls' = [calls EXCEPT ![c] = IdleCall]

\* LocationBasedFashionAssistant.get_enhanced_location_info called on one
\* assistant, lines 18-21: a cached entry is returned, any other location
\* is handed to the lookup adapter
AssistantEnrich(c) ==
    /\ calls[c].pc = "idle"
    /\ \E location \in Queries :
          IF location \in DOMAIN location_cache
          THEN /\ enriched' = [via |-> "assistant", query |-> location,
                               result |-> location_cache[location],
                               looked_up |-> FALSE, fell_back |-> FALSE]
               /\ UNCHANGED calls
          ELSE /\ TotalLookups + Pending < MaxLookups
               /\ calls' = [calls EXCEPT ![c] =
                               [IdleCall EXCEPT !.pc = "lookup",
                                                !.via = "assistant",
                                                !.location = location]]
               /\ UNCHANGED enriched
    /\ UNCHANGED <<pipeVars, polygon_calls, location_cache, classification_cache,
                   parsed, httpVars, raceVars>>

\* enhanced_location_extract (via "extract") and
\* generate_enhanced_fashion_response, which calls it (via "generate"),
\* lines 305-320: a new assistant, the candidates of the message, and the
\* first of them handed to the lookup adapter; no candidate, no lookup
EnhancedLocationExtract(c) ==
    /\ calls[c].pc = "idle"
    /\ \E via \in {"extract", "generate"},
          matches \in UNION {[1..n -> RawMatches] : n \in 0..MaxMatches} :
          \E candidates \in {Candidates(matches)} :
             IF candidates = <<>>
             THEN /\ enriched' =
                        [via |-> via, query |-> <<>>,
                         result |-> IF via = "generate"
                                    THEN [text |-> AskLocationReply] ELSE None,
                         looked_up |-> FALSE, fell_back |-> FALSE]
                  /\ UNCHANGED calls
             ELSE /\ TotalLookups + Pending + Len(candidates) <= MaxLookups
                  /\ calls' = [calls EXCEPT ![c] =
                                  [IdleCall EXCEPT !.pc = "lookup", !.via = via,
                                                   !.location = Head(candidates),
                                                   !.matches = Tail(candidates)]]
                  /\ UNCHANGED enriched
    /\ UNCHANGED <<pipeVars, polygon_calls, location_cache, classification_cache,
                   parsed, httpVars, raceVars>>

\* gemini_utils.get_enhanced_location_info called with a location string,
\* lines 81-84
GeminiEnrich(c) ==
    /\ calls[c].pc = "idle"
    /\ \E location \in Queries \cup {<<>>, <<"Unknown">>} :
          IF location = <<>> \/ lower(location) = Unknown
          THEN /\ enriched' = [via |-> "gemini_utils", query |-> location,
                               result |-> None, looked_up |-> FALSE,
                               fell_back |-> FALSE]
               /\ UNCHANGED calls
          ELSE /\ TotalLookups + Pending < MaxLookups
               /\ calls' = [calls EXCEPT ![c] =
                               [IdleCall EXCEPT !.pc = "lookup",
                                                !.via = "gemini_utils",
                                                !.location = location]]
               /\ UNCHANGED enriched
    /\ UNCHANGED <<pipeVars, polygon_calls, location_cache, classification_cache,
                   parsed, httpVars, raceVars>>

\* the lookup adapter answers the call of thread c (geo.py lines 27-52).
\* gemini_utils builds its record (lines 85-98).  The assistant returns None
\* for no match (line 47), and the loop of enhanced_location_extract goes to
\* its next candidate; for a match it builds location_info and looks for its
\* key in the classification cache (lines 25-38, 52-56): an entry is the
\* classification, which goes into location_info (line 42), and without one
\* llm_chat is called
PolygonReturns(c) ==
    /\ calls[c].pc = "lookup"
    /\ polygon_calls' = Counted(polygon_calls, calls[c].location)
    /\ \E found \in SUBSET Places :
       \E polygon_data \in {get_user_location_polygon(calls[c].location, found)} :
          IF calls[c].via = "gemini_utils"
          THEN Returns(c, get_enhanced_location_info(calls[c].location, found),
                       TRUE, FALSE)
          ELSE IF polygon_data = None
          THEN IF calls[c].matches = <<>>
               THEN Returns(c, None, TRUE, FALSE)
               ELSE /\ calls' = [calls EXCEPT
                                    ![c].location = Head(calls[c].matches),
                                    ![c].matches = Tail(calls[c].matches)]
                    /\ UNCHANGED enriched
          ELSE \E location_info \in {LocationInfo(calls[c].location, polygon_data)} :
                  IF calls[c].via = "assistant"
                        /\ LocationKey(location_info) \in DOMAIN classification_cache
                  THEN /\ calls' =
                             [calls EXCEPT
                                 ![c].pc = "store",
                                 ![c].location_info =
                                    Update(location_info,
                                           classification_cache[LocationKey(location_info)])]
                       /\ UNCHANGED enriched
                  ELSE /\ calls' = [calls EXCEPT ![c].pc = "classify",
                                                 ![c].location_info = location_info]
                       /\ UNCHANGED enriched
    /\ UNCHANGED <<pipeVars, location_cache, classification_cache, parsed,
                   httpVars, raceVars>>

\* llm_chat answers the classification of thread c (lines 93-106, 42):
\* its response is parsed and the classification goes into the
\* classification cache (line 100) and into location_info (line 42); when it
\* raises, the fallback classification is used and not cached, and the
\* fallback itself may raise.  The assistant of enhanced_location_extract is
\* its own, no other call sees its caches, and they end with the call.
ClassifyReturns(c) ==
    /\ calls[c].pc = "classify"
    /\ \E response \in EnrichResponses :
          IF response = LlmRaises
          THEN \E fallback \in
                     {_get_basic_fallback_classification(calls[c].location_info)} :
                  /\ IF fallback = Raised("AttributeError")
                     THEN Returns(c, fallback, TRUE, TRUE)
                     ELSE IF calls[c].via = "assistant"
                     THEN /\ calls' =
                                [calls EXCEPT
                                    ![c].pc = "store",
                                    ![c].fell_back = TRUE,
                                    ![c].location_info =
                                       Update(calls[c].location_info, fallback)]
                          /\ UNCHANGED enriched
                     ELSE Returns(c, Update(calls[c].location_info, fallback),
                                  TRUE, TRUE)
                  /\ UNCHANGED <<classification_cache, parsed>>
          ELSE \E classification \in {_parse_llm_classification_response(response)} :
                  /\ parsed' = [response |-> response, result |-> classification]
                  /\ IF calls[c].via = "assistant"
                     THEN /\ classification_cache' =
                                Put(classification_cache,
                                    LocationKey(calls[c].location_info),
                                    classification)
                          /\ calls' =
                                [calls EXCEPT
                                    ![c].pc = "store",
                                    ![c].location_info =
                                       Update(calls[c].location_info, classification)]
                          /\ UNCHANGED enriched
                     ELSE /\ Returns(c, Update(calls[c].location_info,
                                               classification), TRUE, FALSE)
                          /\ UNCHANGED classification_cache
    /\ UNCHANGED <<pipeVars, polygon_calls, location_cache, httpVars, raceVars>>

\* get_enhanced_location_info lines 44-45 on the shared assistant: the
\* enriched location goes into the location cache and is returned
StoreLocation(c) ==
    /\ calls[c].pc = "store"
    /\ location_cache' =
          Put(location_cache, calls[c].location, calls[c].location_info)
    /\ Returns(c, calls[c].location_info, TRUE, calls[c].fell_back)
    /\ UNCHANGED <<pipeVars, polygon_calls, classification_cache, parsed,
                   httpVars, raceVars>>

\* generate_enhanced_fashion_response lines 332-338: the prompt is built and
\* the completion for it returns its text, or one of the two raises
RespondReturns(c) ==
    /\ calls[c].pc = "respond"
    /\ \E result \in {[text |-> TextStrip(response)] :
                           response \in GenerateTexts \cup {DegradedReply}}
                      \cup {Raised("Exception")} :
          enriched' = [via |-> "generate", query |-> calls[c].location,
                       result |-> result, looked_up |-> TRUE,
                       fell_back |-> FALSE]
    /\ calls' = [calls EXCEPT ![c] = IdleCall]
    /\ UNCHANGED <<pipeVars, polygon_calls, location_cache, classification_cache,
                   parsed, httpVars, raceVars>>

\* _get_basic_fallback_classification called with a location_info
FallbackClassification ==
    /\ \E country \in FallbackCountries :
          enriched' = [via |-> "fallback", query |-> country,
                       result |-> _get_basic_fallback_classification(
                                      [country |-> country]),
                       looked_up |-> FALSE, fell_back |-> TRUE]
    /\ UNCHANGED <<pipeVars, polygon_calls, location_cache, classification_cache,
                   parsed, calls, httpVars, raceVars>>

\* the parse over every classification response
ParseInit ==
    /\ \E response \in ClassificationResponses :
          parsed = [response |-> response, result |-> None]
    /\ user_preferences = EmptyDict /\ pc = "idle" /\ message = <<>>
    /\ user_id = "none" /\ llm_out = <<>> /\ chat = NoChat /\ completions = <<>>
    /\ before = None /\ stages = <<>> /\ reply = <<>> /\ intent = <<>>
    /\ model_performance = NoAttempts /\ lines_left = <<>>
    /\ polygon_calls = EmptyDict /\ location_cache = EmptyDict
    /\ classification_cache = EmptyDict /\ enriched = None /\ calls = NoCalls
    /\ app_state = "not_started" /\ http = None /\ threads = NoThreads
ParseNext == ParseClassification
ParseSpec == ParseInit /\ [][ParseNext]_vars

\* the enrichment entry points
LocationNext ==
    \/ \E c \in Callers :
          \/ AssistantEnrich(c)
          \/ EnhancedLocationExtract(c)
          \/ GeminiEnrich(c)
          \/ PolygonReturns(c)
          \/ ClassifyReturns(c)
          \/ StoreLocation(c)
          \/ RespondReturns(c)
    \/ FallbackClassification
LocationSpec == Init /\ [][LocationNext]_vars

(***************************************************************************)
(* app.py: the import of the module and POST /cultura.                     *)
(***************************************************************************)
\* the names gemini_utils.py binds at module level
GeminiUtilsNames ==
    {"load_dotenv", "os", "genai", "re", "random", "get_gemini_config",
     "LocationAPI", "get_model_for_task", "gemini_config", "user_preferences",
     "location_api", "_llm_chat", "classify_intent", "get_enhanced_location_info",
     "extract_user_info", "generate_fashion_response", "model_performance",
     "track_model_performance", "get_best_performing_model",
     "process_user_message", "handle_telegram_message"}

\* app.py line 5: from gemini_utils import ...
AppImports == {"process_user_message", "format_response"}

\* the bodies of a POST: no message key, or a message, possibly empty
HttpBodies == {EmptyDict} \cup {[message |-> m] : m \in {<<>>} \cup Messages}

\* running app.py: its imports succeed and the routes are registered, or the
\* import raises ImportError and no route ever is
StartApp ==
    /\ app_state = "not_started"
    /\ app_state' = IF AppImports \subseteq GeminiUtilsNames
                    THEN "running" ELSE "import_error"
    /\ UNCHANGED <<pipeVars, locVars, http, raceVars>>

\* a client posts to /cultura; cultura() (lines 28-40) answers when the
\* application runs
PostCultura ==
    /\ app_state # "not_started"
    /\ pc = "idle"
    /\ \E data \in HttpBodies :
          IF app_state = "import_error"
          THEN /\ http' = [data |-> data, status |-> "no response", body |-> None]
               /\ UNCHANGED pipeVars
          ELSE IF Get(data, "message", <<>>) = <<>>
          THEN /\ http' = [data |-> data, status |-> "400",
                           body |-> [error |-> "No message provided"]]
               /\ UNCHANGED pipeVars
          ELSE /\ http' = [data |-> data, status |-> "pending", body |-> None]
               /\ message' = data.message
               /\ user_id' = "web_user"
               /\ pc' = "llm_primary"
               /\ chat' = NewChat("extract", "medium", TRUE)
               /\ llm_out' = <<>>
               /\ completions' = <<>>
               /\ stages' = <<"FACT_EXTRACTION">>
               /\ reply' = <<>>
               /\ intent' = <<>>
               /\ UNCHANGED <<user_preferences, before, model_performance, lines_left>>
    /\ UNCHANGED <<locVars, app_state, raceVars>>

\* the HTTP boundary
HttpNext == StartApp \/ PostCultura
HttpSpec == Init /\ [][HttpNext]_vars

(***************************************************************************)
(* Claims about the classification parse (ParseSpec).                      *)
(***************************************************************************)
ScalarFields == {"region", "climate_zone", "fashion_market", "seasonal_info",
                 "price_range_info"}
ListFields == {list_fields[i] : i \in 1..Len(list_fields)}
ClimateLists == {"fabrics", "colors", "styles", "essentials"}

Parsed == parsed # None /\ parsed.result # None

\* every key of a profile is there, with the type the profile gives it
IsTotal(profile) ==
    /\ ScalarFields \subseteq DOMAIN profile
    /\ ListFields \subseteq DOMAIN profile
    /\ \A f \in ListFields : profile[f].t = "list"
    /\ "climate_recommendations" \in DOMAIN profile
    /\ profile["climate_recommendations"].t = "dict"
    /\ ClimateLists \subseteq DOMAIN profile["climate_recommendations"].v
    /\ \A f \in ClimateLists : profile["climate_recommendations"].v[f].t = "list"

\* C6, as the specification states it: whatever the classification response
\* (a JSON object, a JSON object with keys missing, a text that is no JSON),
\* the parsed profile has the five scalar fields, each "unknown" when the
\* response did not supply it, every list field as a list, and
\* climate_recommendations with its four lists.
C6_Original ==
    Parsed =>
        /\ IsTotal(parsed.result)
        /\ parsed.response.json # None =>
              \A f \in ScalarFields :
                  f \notin DOMAIN parsed.response.json =>
                      parsed.result[f] = Str(<<"unknown">>)
        /\ parsed.response = [json |-> None, lines |-> DegradedReply] =>
              \A f \in ScalarFields : parsed.result[f] = Str(<<"unknown">>)

\* C7: when the response is a JSON object, a list field it omits or gives a
\* value that is no list is the empty list in the parsed profile, and the
\* region, climate_zone and fashion_market it gives are kept as given.
C7_ListFieldsDefaultEmpty ==
    (Parsed /\ parsed.response.json # None) =>
        /\ \A f \in ListFields :
              (f \notin DOMAIN parsed.response.json
                  \/ parsed.response.json[f].t # "list") =>
                      /\ f \in DOMAIN parsed.result
                      /\ parsed.result[f] = List(<<>>)
        /\ \A f \in {required_fields[i] : i \in 1..Len(required_fields)} :
              f \in DOMAIN parsed.response.json =>
                  parsed.result[f] = parsed.response.json[f]

\* scenario 4 is parsed: three scalars given and no list field, every list
\* field of the profile empty and the region kept
C7_Witness ==
    /\ Parsed
    /\ parsed.response = Scenario4Response
    /\ parsed.result["local_brands"] = List(<<>>)
    /\ parsed.result["popular_styles"] = List(<<>>)
    /\ parsed.result["region"] = Str(<<"south_asia">>)

(***************************************************************************)
(* Claims about the enrichment entry points (LocationSpec).                *)
(***************************************************************************)
\* C8, as the specification states it: over any sequence of enrichment calls
\* in one process the lookup adapter is called at most once for each raw
\* location string, whether the first lookup matched or not.
C8_Original ==
    \A location \in DOMAIN polygon_calls : polygon_calls[location] <= 1

(***************************************************************************)
(* Claims about the HTTP boundary (HttpSpec).                              *)
(***************************************************************************)
\* C10, as the specification states it: a POST /cultura whose body has no
\* message, or an empty one, is answered 400 {"error": "No message provided"},
\* process_user_message is not invoked and the preference store is unchanged.
C10_Original ==
    (http # None /\ Get(http.data, "message", <<>>) = <<>>) =>
        /\ http.status = "400"
        /\ http.body = [error |-> "No message provided"]
        /\ pc = "idle"
        /\ user_preferences = EmptyDict

(***************************************************************************)
(* Claims about intent classification and response generation (Spec).      *)
(***************************************************************************)
FiveCategories == {"skincare", "event_dressing", "travel", "music",
                   "general_recommendation"}

\* the text is exactly one of the five category names
IsCategory(text) ==
    /\ Len(text) = 1
    /\ Len(text[1]) = 1
    /\ text[1][1] \in FiveCategories

Reached(stage) == \E i \in 1..Len(stages) : stages[i] = stage

\* C11: once a request that passed the shortcut check has its intent, the
\* reply is the fixed "didn't understand" reply whenever the text
\* classify_intent returned is not exactly one of the five categories, and
\* response generation is invoked only when it is one of them; a malformed
\* category ends the request with a reply like any other.
C11_IntentGate ==
    /\ (Reached("INTENT_CLASSIFICATION") /\ pc \in {"return", "done"}) =>
          IF IsCategory(intent)
          THEN Reached("RESPONSE_GENERATION")
          ELSE /\ pc = "done"
               /\ reply = NotUnderstoodReply
               /\ ~Reached("RESPONSE_GENERATION")
    /\ Reached("RESPONSE_GENERATION") => IsCategory(intent)
    /\ (\E i \in 1..Len(completions) : completions[i] = "generate") =>
          IsCategory(intent)

\* C11 witness: the classifier answered "Skincare" to a two-word message and
\* the request ended with the "didn't understand" reply
C11_Witness ==
    /\ pc = "done"
    /\ message = <<"h", " ", "i">>
    /\ intent = << <<"Skincare">> >>
    /\ reply = NotUnderstoodReply
    /\ stages = <<"FACT_EXTRACTION", "SHORTCUT_CHECK", "INTENT_CLASSIFICATION",
                  "UNINTELLIGIBLE_REPLY">>

(***************************************************************************)
(* Claims about the model selection and its counters (Spec).               *)
(***************************************************************************)
Attempts(performance, model_name) ==
    performance[model_name].success + performance[model_name].failures

\* C12, as the specification states it: every completion attempt of
\* _llm_chat, primary or fallback, adds one to the success or the failure
\* counter of the model it attempted.
C12_Original ==
    [][Len(completions') = Len(completions) + 1 =>
          Attempts(model_performance', chat'.attempts[Len(chat'.attempts)])
              = Attempts(model_performance, chat'.attempts[Len(chat'.attempts)]) + 1]_vars

\* C13, as the specification states it: the first model response generation
\* attempts is always the model get_model_for_task gives for 'complex'.
C13_Original ==
    (chat.caller = "generate" /\ chat.attempts # <<>>) =>
        chat.attempts[1] = get_model_for_task("complex")

(***************************************************************************)
(* Claims about the classification of a location (LocationSpec).           *)
(***************************************************************************)
\* the region and climate zone the fallback table gives a country
TableRegion(country) ==
    IF HasAny(country, SouthAsiaTerms) THEN <<"south_asia">>
    ELSE IF HasAny(country, NorthAmericaTerms) THEN <<"north_america">>
    ELSE IF HasAny(country, EuropeTerms) THEN <<"europe">>
    ELSE <<"unknown">>
TableClimate(country) ==
    IF HasAny(country, SouthAsiaTerms) THEN <<"tropical">> ELSE <<"temperate">>

\* enrichment found the location and its classification call failed
FellBackOnFound ==
    /\ enriched # None
    /\ enriched.via \in {"assistant", "extract"}
    /\ enriched.fell_back

\* C14, as the specification states it: when the classification call fails
\* for a location the lookup adapter found, the classification is the
\* rule-based fallback profile and nothing is raised: region and climate zone
\* by the table on the country the adapter resolved, and the generic lists.
C14_Original ==
    FellBackOnFound =>
        /\ enriched.result # Raised("AttributeError")
        /\ enriched.result["region"].v
              = TableRegion(lower(AddressOf(enriched.query).country.v))
        /\ enriched.result["climate_zone"].v
              = TableClimate(lower(AddressOf(enriched.query).country.v))
        /\ enriched.result["local_brands"] = fallback_data.local_brands

\* the composite of the city and the country the lookup adapter resolved
ResolvedKey(location) ==
    Format(Get(AddressOf(location), "city", PyNone)) \o <<"-">>
        \o Format(Get(AddressOf(location), "country", PyNone))

\* C15, as the specification states it: the classification cache is keyed
\* by the city and country the lookup adapter resolved, so two enriched
\* locations that the adapter resolved to different cities or countries
\* never share an entry of the classification cache.
C15_Original ==
    /\ \A location \in DOMAIN location_cache :
          LocationKey(location_cache[location]) = ResolvedKey(location)
    /\ \A l1, l2 \in DOMAIN location_cache :
          AddressOf(l1) # AddressOf(l2) =>
              LocationKey(location_cache[l1]) # LocationKey(location_cache[l2])

(***************************************************************************)
(* Claims about the course of a request (LiveSpec).                        *)
(***************************************************************************)
\* the courses a request may take, stage by stage
Courses ==
    { <<"FACT_EXTRACTION", "SHORTCUT_CHECK", "GREETING_REPLY">>,
      <<"FACT_EXTRACTION", "SHORTCUT_CHECK", "UNINTELLIGIBLE_REPLY">>,
      <<"FACT_EXTRACTION", "SHORTCUT_CHECK", "INTENT_CLASSIFICATION",
        "UNINTELLIGIBLE_REPLY">>,
      <<"FACT_EXTRACTION", "SHORTCUT_CHECK", "INTENT_CLASSIFICATION",
        "RESPONSE_GENERATION", "REPLY">> }

IsPrefix(s, t) == Len(s) <= Len(t) /\ SubSeq(t, 1, Len(s)) = s

\* the number of completion attempts made for a caller of _llm_chat
AttemptsOf(caller) ==
    Cardinality({i \in 1..Len(completions) : completions[i] = caller})

\* the stages passed so far begin one of the courses; a finished request
\* has passed a whole course and holds the reply of its last stage; the
\* completion attempts are those of the stages passed, in their order
OnCourse ==
    /\ \E course \in Courses : IsPrefix(stages, course)
    /\ pc # "idle" => stages # <<>>
    /\ pc = "done" =>
          /\ stages \in Courses
          /\ stages[Len(stages)] = "GREETING_REPLY" => reply = GreetingReply
          /\ stages[Len(stages)] = "UNINTELLIGIBLE_REPLY" => reply = NotUnderstoodReply
          /\ stages[Len(stages)] = "REPLY" => reply # <<>>
          /\ AttemptsOf("extract") \in {1, 2}
          /\ AttemptsOf("classify") \in
                (IF Reached("INTENT_CLASSIFICATION") THEN {1, 2} ELSE {0})
          /\ AttemptsOf("generate") \in
                (IF Reached("RESPONSE_GENERATION") THEN {1, 2} ELSE {0})
    /\ \A i, j \in 1..Len(completions) :
          (i < j /\ completions[i] # completions[j]) =>
              \/ completions[i] = "extract"
              \/ completions[i] = "classify" /\ completions[j] = "generate"

\* C16: every request follows the state machine and terminates: fact
\* extraction first and once, intent classification at most once and only
\* after the shortcut check let the message through, response generation at
\* most once and only after a valid intent, and the request ends with one
\* reply, also when every completion attempt fails.
C16_RequestTerminates ==
    /\ []OnCourse
    /\ [](Reached("RESPONSE_GENERATION") => IsCategory(intent))
    /\ (pc # "idle") ~> (pc = "done")

\* C16 witness: both attempts of the extraction and both attempts of the
\* classification failed, and the request ended with one reply
C16_Witness ==
    /\ pc = "done"
    /\ completions = <<"extract", "extract", "classify", "classify">>
    /\ intent = DegradedReply
    /\ reply = NotUnderstoodReply

(***************************************************************************)
(* Claims about concurrent requests (RaceSpec).                            *)
(***************************************************************************)
\* the fields a completion gives a value for
LabelledFields == {"location", "body_type", "style_preferences", "budget"}

\* the facts a request extracted: what its completion alone puts in a record
Extracted(r) == MergeLines(EmptyDict, TextStrip(threads[r].extracted), {})

\* C17: when two requests for the same user run extract_user_info at once,
\* no update is lost: once both have returned, every fact either of them
\* extracted (a value other than "unknown") is in the user's record, with a
\* value one of the two extracted.
C17_Original ==
    (\A r \in Requests : threads[r].pc = "done") =>
        /\ WebUser \in DOMAIN user_preferences
        /\ \A f \in LabelledFields : \A r \in Requests :
              f \in DOMAIN Extracted(r) =>
                 /\ f \in DOMAIN user_preferences[WebUser]
                 /\ \E q \in Requests :
                       /\ f \in DOMAIN Extracted(q)
                       /\ user_preferences[WebUser][f] = Extracted(q)[f]

(***************************************************************************)
(* Claims about the enrichment kept in a record (FactSpec).                *)
(***************************************************************************)
\* C18: after any sequence of extract_user_info calls, a record that holds
\* both location and enhanced_location holds the enrichment of that very
\* location: enhanced_location.original_query equals location.  The record
\* is looked at when no call of extract_user_info is under way.
C18_Original ==
    pc \notin {"read_lines", "lookup"} =>
        \A uid \in DOMAIN user_preferences :
           LET rec == user_preferences[uid]
           IN  {"location", "enhanced_location"} \subseteq DOMAIN rec =>
                  rec["enhanced_location"].original_query = rec["location"]

====
